---- MODULE Spec2Model ----
(***************************************************************************)
(* crunner: command-line runner of smart-contract methods.                 *)
(*                                                                         *)
(* Strings are sequences of one-character strings.  A U256 is a sequence   *)
(* of NumLimbs limbs in base LimbBase, least significant limb first        *)
(* (LimbBase^NumLimbs = 2^256), so that the 256-bit overflow of the        *)
(* parsers is the overflow of the last limb.                               *)
(***************************************************************************)
EXTENDS Integers, Sequences, FiniteSets, TLC

VARIABLES
    \* ---- the parameter pipeline (parse_param_type / prepare_params) ----
    p,              \* the raw parameter string under classification
    ptype,          \* result of parse_param_type(p), "none" before the call
    pres,           \* result of prepare_params(<<p>>), NoResult before the call
    ares,           \* result of get_address_from_str(p), NoResult before the call
    \* ---- one invocation of main ----
    pc,             \* position of main
    argv,           \* the command line as typed
    env_key,        \* CRUNNER_SETTER_SECRETKEY as read: "unread", "absent", "valid"
    chain,          \* Option<ChainType>: "None", "BSC", "Ethereum", "Polygon"
    endpoint,       \* RPC endpoint of the web3 instance, "none" before create_web3
    is_eoa_res,     \* result of perform_check_is_eoa, NoResult before the call
    mode,           \* branch of main's if/else chain that was entered
    requests,       \* chain requests sent so far, in order
    stdout,         \* lines printed to standard output
    stderr,         \* lines printed to standard error
    key_read,       \* TRUE once the signing key was read from the environment
    exit_code       \* process exit status, Running while main runs

pvars == <<p, ptype, pres, ares>>
mvars == <<pc, argv, env_key, chain, endpoint, is_eoa_res, mode, requests,
           stdout, stderr, key_read, exit_code>>
vars == <<p, ptype, pres, ares, pc, argv, env_key, chain, endpoint,
          is_eoa_res, mode, requests, stdout, stderr, key_read, exit_code>>

NoResult == [kind |-> "none"]
Running == -1

(***************************************************************************)
(* Characters and strings                                                  *)
(***************************************************************************)
Upper == <<"A","B","C","D","E","F","G","H","I","J","K","L","M",
           "N","O","P","Q","R","S","T","U","V","W","X","Y","Z">>
Lower == <<"a","b","c","d","e","f","g","h","i","j","k","l","m",
           "n","o","p","q","r","s","t","u","v","w","x","y","z">>

HexChars == <<"0","1","2","3","4","5","6","7","8","9","a","b","c","d","e","f">>

Digit09 == {"0","1","2","3","4","5","6","7","8","9"}
Digit19 == Digit09 \ {"0"}
Hex09af == Digit09 \cup {"a","b","c","d","e","f"}
Hex09afAF == Hex09af \cup {"A","B","C","D","E","F"}

\* char::to_lowercase on the ASCII range
LowerChar(c) ==
    IF \E i \in 1..Len(Upper) : Upper[i] = c
    THEN Lower[CHOOSE i \in 1..Len(Upper) : Upper[i] = c]
    ELSE c

\* str::to_lowercase
to_lowercase(s) == [i \in 1..Len(s) |-> LowerChar(s[i])]

\* c repeated n times
Rep(c, n) == [i \in 1..n |-> c]

\* &s[from..] with from counted from 0, on an ASCII string
SliceFrom(s, from) == SubSeq(s, from + 1, Len(s))

\* str::trim_start_matches("0x"): removes every leading repetition of "0x"
RECURSIVE trim_start_matches_0x(_)
trim_start_matches_0x(s) ==
    IF Len(s) >= 2 /\ s[1] = "0" /\ s[2] = "x"
    THEN trim_start_matches_0x(SubSeq(s, 3, Len(s)))
    ELSE s

(***************************************************************************)
(* Results: Result<T, String> values and panics                            *)
(***************************************************************************)
Ok(v) == [kind |-> "Ok", val |-> v]
Err(m) == [kind |-> "Err", val |-> m]
Panic(m) == [kind |-> "Panic", val |-> m]

(***************************************************************************)
(* Format classifier                                                       *)
(***************************************************************************)
AddrHexLen == 40

\* Regex ^(0x)?[0-9a-f]{40}$ on the lower-cased string
validate_address_format(address) ==
    LET l == to_lowercase(address) IN
    \/ /\ Len(l) = AddrHexLen
       /\ \A i \in 1..Len(l) : l[i] \in Hex09af
    \/ /\ Len(l) = AddrHexLen + 2
       /\ l[1] = "0" /\ l[2] = "x"
       /\ \A i \in 3..Len(l) : l[i] \in Hex09af

\* Regex 0x[0-9a-fA-F]+ on the lower-cased string; is_match searches the
\* whole string for a match (the pattern has no anchors)
validate_hexadecimal_format(s) ==
    LET l == to_lowercase(s) IN
    \E i \in 1..Len(l) :
        /\ i + 2 <= Len(l)
        /\ l[i] = "0" /\ l[i + 1] = "x"
        /\ l[i + 2] \in Hex09afAF

\* validate_decimal_format with the leading digit class written [0-9]
validate_decimal_format_zero(s) ==
    LET l == to_lowercase(s) IN
    \E i \in 1..Len(l) :
        \/ l[i] \in Digit09
        \/ /\ i + 1 <= Len(l)
           /\ l[i] = "-"
           /\ l[i + 1] \in Digit09

\* Regex [-]?[1-9][0-9]* on the lower-cased string; is_match searches the
\* whole string for a match (the pattern has no anchors)
validate_decimal_format(s) ==
    LET l == to_lowercase(s) IN
    \E i \in 1..Len(l) :
        \/ l[i] \in Digit19
        \/ /\ i + 1 <= Len(l)
           /\ l[i] = "-"
           /\ l[i + 1] \in Digit19

\* parse_param_type with the hexadecimal check ahead of the address check
parse_param_type_hexfirst(param_str) ==
    IF validate_hexadecimal_format(param_str) THEN "HU256"
    ELSE IF validate_address_format(param_str) THEN "Address"
    ELSE IF validate_decimal_format(param_str) THEN "DU256"
    ELSE "String"

parse_param_type(param_str) ==
    IF validate_address_format(param_str) THEN "Address"
    ELSE IF validate_hexadecimal_format(param_str) THEN "HU256"
    ELSE IF validate_decimal_format(param_str) THEN "DU256"
    ELSE "String"

(***************************************************************************)
(* hex::decode and Address::from_slice                                     *)
(***************************************************************************)
HexVal(c) == (CHOOSE i \in 1..Len(HexChars) : HexChars[i] = LowerChar(c)) - 1

\* hex::decode: an odd length or a non-hex character is an error
hex_decode(s) ==
    IF Len(s) % 2 # 0 THEN Err("OddLength")
    ELSE IF \E i \in 1..Len(s) : s[i] \notin Hex09afAF
    THEN Err("InvalidHexCharacter")
    ELSE Ok([i \in 1..(Len(s) \div 2) |->
                16 * HexVal(s[2 * i - 1]) + HexVal(s[2 * i])])

AddressBytes == 20

\* Address::from_slice asserts that the slice holds exactly 20 bytes
Address_from_slice(bytes) ==
    IF Len(bytes) = AddressBytes THEN Ok(bytes)
    ELSE Panic("from_slice length")

get_address_from_str(address) ==
    IF ~validate_address_format(address)
    THEN Err("Error address is not in the correct format")
    ELSE LET decoded == hex_decode(SliceFrom(address, 2)) IN
         IF decoded.kind # "Ok" THEN Panic("unwrap on hex::decode error")
         ELSE Address_from_slice(decoded.val)

(***************************************************************************)
(* U256                                                                    *)
(***************************************************************************)
LimbBase == 65536
NumLimbs == 16

U256Zero == [i \in 1..NumLimbs |-> 0]

\* one limb of u * m + carry: the limb x is appended to the limbs computed so
\* far and the carry goes on to the next limb
MulAddStep(st, x, m) ==
    LET t == x * m + st.carry IN
    [limbs |-> Append(st.limbs, t % LimbBase), carry |-> t \div LimbBase]

\* limbs lo..hi of u in ascending order, entered with the state st; the
\* range is halved to keep the evaluation shallow (a carry never exceeds m,
\* a remainder is always below d)
RECURSIVE MulAddRange(_, _, _, _, _)
MulAddRange(u, m, lo, hi, st) ==
    IF lo > hi THEN st
    ELSE IF lo = hi THEN MulAddStep(st, u[lo], m)
    ELSE LET mid == (lo + hi) \div 2
             low == MulAddRange(u, m, lo, mid, st)
         IN IF low.carry <= m THEN MulAddRange(u, m, mid + 1, hi, low)
            ELSE low

\* limbs i..NumLimbs of u * m + carry, and the carry out of the last limb
MulAddFrom(u, m, carry, i) ==
    MulAddRange(u, m, i, NumLimbs, [limbs |-> <<>>, carry |-> carry])

\* One iteration of the loop of U256::from_dec_str: the byte must be a
\* decimal digit; res * 10 and res + digit are overflow-checked
from_dec_str_step(res, c) ==
    IF c \notin Digit09 THEN Err("InvalidCharacter")
    ELSE LET m == MulAddFrom(res, 10, 0, 1) IN
         IF m.carry > 0 THEN Err("InvalidLength")
         ELSE LET a == MulAddFrom(m.limbs, 1, HexVal(c), 1) IN
              IF a.carry > 0 THEN Err("InvalidLength")
              ELSE Ok(a.limbs)

\* the loop of U256::from_dec_str over bytes lo..hi of s, entered with the
\* result res; the first error ends it.  The range is halved to keep the
\* evaluation shallow, the bytes are still consumed from left to right.
RECURSIVE from_dec_str_range(_, _, _, _)
from_dec_str_range(s, lo, hi, res) ==
    IF lo > hi \/ res.kind # "Ok" THEN res
    ELSE IF lo = hi THEN from_dec_str_step(res.val, s[lo])
    ELSE LET mid == (lo + hi) \div 2 IN
         from_dec_str_range(s, mid + 1, hi, from_dec_str_range(s, lo, mid, res))

from_dec_str(s) == from_dec_str_range(s, 1, Len(s), Ok(U256Zero))

MaxHexEncodedLen == 64

\* One hex digit of U256::from_str_radix(txt, 16)
from_hex_step(res, c) ==
    IF c \notin Hex09afAF THEN Err("InvalidCharacter")
    ELSE Ok(MulAddFrom(res, 16, HexVal(c), 1).limbs)

\* the digits lo..hi of s, from left to right, entered with the result res
RECURSIVE from_hex_range(_, _, _, _)
from_hex_range(s, lo, hi, res) ==
    IF lo > hi \/ res.kind # "Ok" THEN res
    ELSE IF lo = hi THEN from_hex_step(res.val, s[lo])
    ELSE LET mid == (lo + hi) \div 2 IN
         from_hex_range(s, mid + 1, hi, from_hex_range(s, lo, mid, res))

\* U256::from_str_radix(txt, 16): at most 64 hex digits, each a hex digit
from_str_radix16(s) ==
    IF Len(s) > MaxHexEncodedLen THEN Err("InvalidLength")
    ELSE from_hex_range(s, 1, Len(s), Ok(U256Zero))

\* one limb of a division by d: the remainder so far is carried into the
\* limb x, whose quotient goes below the limbs computed so far
DivStep(st, x, d) ==
    LET t == st.rem * LimbBase + x IN
    [limbs |-> <<t \div d>> \o st.limbs, rem |-> t % d]

\* limbs hi..lo of u in descending order, entered with the state st
RECURSIVE DivRange(_, _, _, _, _)
DivRange(u, d, lo, hi, st) ==
    IF lo > hi THEN st
    ELSE IF lo = hi THEN DivStep(st, u[lo], d)
    ELSE LET mid == (lo + hi) \div 2
             high == DivRange(u, d, mid + 1, hi, st)
         IN IF high.rem < d THEN DivRange(u, d, lo, mid, high)
            ELSE high

\* limbs i..1 of u divided by d (most significant first), and the remainder
DivFrom(u, d, i, rem) ==
    DivRange(u, d, 1, i, [limbs |-> <<>>, rem |-> rem])

\* the decimal digits are produced four at a time
DecChunk == 10000

\* the decimal digits of r < DecChunk, padded to four or as they are
DecChunkDigits(r, padded) ==
    LET all == <<HexChars[(r \div 1000) + 1],
                 HexChars[((r \div 100) % 10) + 1],
                 HexChars[((r \div 10) % 10) + 1],
                 HexChars[(r % 10) + 1]>>
        n == IF r >= 1000 THEN 4 ELSE IF r >= 100 THEN 3
             ELSE IF r >= 10 THEN 2 ELSE 1
    IN IF padded THEN all ELSE SubSeq(all, 5 - n, 4)

RECURSIVE U256_digits(_)
U256_digits(u) ==
    LET q == DivFrom(u, DecChunk, NumLimbs, 0) IN
    IF q.limbs = U256Zero THEN DecChunkDigits(q.rem, FALSE)
    ELSE U256_digits(q.limbs) \o DecChunkDigits(q.rem, TRUE)

\* U256's Display: decimal text without leading zeros
U256_to_string(u) == U256_digits(u)

(***************************************************************************)
(* Parameter encoder                                                       *)
(***************************************************************************)
Token(type, val) == [type |-> type, val |-> val]

\* prepare_param with the decimal branch parsing in radix 16
prepare_param_radix(param) ==
    LET t == parse_param_type(param) IN
    IF t = "Address" THEN
        LET addr == get_address_from_str(param) IN
        IF addr.kind = "Ok" THEN Ok(Token("Address", addr.val))
        ELSE IF addr.kind = "Err"
        THEN Err("Error parsing parameter for Address type")
        ELSE addr
    ELSE IF t = "HU256" THEN
        LET u == from_str_radix16(trim_start_matches_0x(param)) IN
        IF u.kind = "Ok" THEN Ok(Token("Uint", u.val))
        ELSE Err("Error creating U256 from hexadecimal string")
    ELSE IF t = "DU256" THEN
        LET u == from_str_radix16(param) IN
        IF u.kind = "Ok" THEN Ok(Token("Uint", u.val))
        ELSE Err("Error creating U256 from decimal string")
    ELSE Ok(Token("String", param))

\* One iteration of the loop of prepare_params: the token of p, or the
\* error returned, or the panic raised
prepare_param(param) ==
    LET t == parse_param_type(param) IN
    IF t = "Address" THEN
        LET addr == get_address_from_str(param) IN
        IF addr.kind = "Ok" THEN Ok(Token("Address", addr.val))
        ELSE IF addr.kind = "Err"
        THEN Err("Error parsing parameter for Address type")
        ELSE addr
    ELSE IF t = "HU256" THEN
        LET u == from_str_radix16(trim_start_matches_0x(param)) IN
        IF u.kind = "Ok" THEN Ok(Token("Uint", u.val))
        ELSE Err("Error creating U256 from hexadecimal string")
    ELSE IF t = "DU256" THEN
        LET u == from_dec_str(param) IN
        IF u.kind = "Ok" THEN Ok(Token("Uint", u.val))
        ELSE Err("Error creating U256 from decimal string")
    ELSE Ok(Token("String", param))

RECURSIVE prepare_params_from(_, _, _)
prepare_params_from(params, i, parsed_params) ==
    IF i > Len(params) THEN Ok(parsed_params)
    ELSE LET r == prepare_param(params[i]) IN
         IF r.kind = "Ok"
         THEN prepare_params_from(params, i + 1, Append(parsed_params, r.val))
         ELSE r

prepare_params(params) == prepare_params_from(params, 1, <<>>)

\* 2^256 - 1 in decimal
U256MaxDec ==
    <<"1","1","5","7","9","2","0","8","9","2","3","7","3","1","6","1","9","5",
      "4","2","3","5","7","0","9","8","5","0","0","8","6","8","7","9","0","7",
      "8","5","3","2","6","9","9","8","4","6","6","5","6","4","0","5","6","4",
      "0","3","9","4","5","7","5","8","4","0","0","7","9","1","3","1","2","9",
      "6","3","9","9","3","5">>

(***************************************************************************)
(* Inputs of the parameter pipeline                                        *)
(***************************************************************************)
MaxPrefix == 2

AffixAlphabet == {"0", "1", "x", "X", "-", "g"}
FillChars == {"1", "9", "f", "F"}
\* run lengths around the lengths the code distinguishes: 40 hex characters
\* of an address, 64 hex digits and 78 decimal digits of a U256
RunLens == {0, 39, 40, 63, 64, 77, 78}

StringsUpTo(alphabet, n) == UNION {[1..k -> alphabet] : k \in 0..n}

\* at most one trailing character
Suffixes == {<<>>} \cup {<<c>> : c \in AffixAlphabet}

\* prefix, a run of one character, suffix; the decimal texts of 2^256 - 1
\* and 2^256; and 2^256 - 1 and 1 in hexadecimal behind leading zeros
ParamStrings ==
    {pre \o Rep(c, n) \o suf :
        pre \in StringsUpTo(AffixAlphabet, MaxPrefix),
        c \in FillChars, n \in RunLens,
        suf \in Suffixes}
    \cup {U256MaxDec, [U256MaxDec EXCEPT ![Len(U256MaxDec)] = "6"]}
    \cup {<<"0","x","0">> \o Rep("f", 64),
          <<"0","x">> \o Rep("0", 64) \o <<"1">>,
          <<"0","x">> \o Rep("0", 63) \o <<"1">>}

MainIdle ==
    /\ pc = "idle"
    /\ argv = <<>>
    /\ env_key = "unread"
    /\ chain = "None"
    /\ endpoint = "none"
    /\ is_eoa_res = NoResult
    /\ mode = "none"
    /\ requests = <<>>
    /\ stdout = <<>>
    /\ stderr = <<>>
    /\ key_read = FALSE
    /\ exit_code = Running

InitParam ==
    /\ p \in ParamStrings
    /\ ptype = "none"
    /\ pres = NoResult
    /\ ares = NoResult
    /\ MainIdle

\* a call of parse_param_type(p)
Classify ==
    /\ pc = "idle"
    /\ ptype = "none"
    /\ ptype' = parse_param_type(p)
    /\ UNCHANGED <<p, pres, ares, mvars>>

\* a call of prepare_params on the one-element list [p]
Encode ==
    /\ pc = "idle"
    /\ ptype # "none"
    /\ pres = NoResult
    /\ pres' = prepare_params(<<p>>)
    /\ UNCHANGED <<p, ptype, ares, mvars>>

\* a call of get_address_from_str(p)
GetAddress ==
    /\ pc = "idle"
    /\ ptype # "none"
    /\ ares = NoResult
    /\ ares' = get_address_from_str(p)
    /\ UNCHANGED <<p, ptype, pres, mvars>>

NextParam == Classify \/ Encode \/ GetAddress

SpecParam == InitParam /\ [][NextParam]_vars

(***************************************************************************)
(* The patterns of the classifier as the specification states them, each   *)
(* matched against the whole string                                        *)
(***************************************************************************)
\* ^(0x)?[0-9a-f]{40}$, case-insensitive
IsAddressText(s) ==
    \/ /\ Len(s) = 40
       /\ \A i \in 1..Len(s) : s[i] \in Hex09afAF
    \/ /\ Len(s) = 42
       /\ s[1] = "0" /\ s[2] \in {"x", "X"}
       /\ \A i \in 3..Len(s) : s[i] \in Hex09afAF

\* "0x" followed by one or more hex digits
IsHexText(s) ==
    /\ Len(s) >= 3
    /\ s[1] = "0" /\ s[2] \in {"x", "X"}
    /\ \A i \in 3..Len(s) : s[i] \in Hex09afAF

\* ^-?[1-9][0-9]*$
IsDecimalText(s) ==
    LET body == IF Len(s) >= 1 /\ s[1] = "-" THEN Tail(s) ELSE s IN
    /\ Len(body) >= 1
    /\ body[1] \in Digit19
    /\ \A i \in 2..Len(body) : body[i] \in Digit09

AllDigits(s) == \A i \in 1..Len(s) : s[i] \in Digit09

\* s without its leading zeros, keeping its last character
StripLeadingZeros(s) ==
    LET keep == {i \in 1..Len(s) : s[i] # "0" \/ i = Len(s)} IN
    IF s = <<>> THEN s
    ELSE SubSeq(s, CHOOSE i \in keep : \A j \in keep : i <= j, Len(s))

\* d <= e for two digit strings of the same length
DecLeq(d, e) ==
    \/ d = e
    \/ \E i \in 1..Len(d) :
        /\ \A j \in 1..(i - 1) : d[j] = e[j]
        /\ HexVal(d[i]) < HexVal(e[i])

\* the decimal digit string s denotes a value of at most 2^256 - 1
FitsU256(s) ==
    LET d == StripLeadingZeros(s) IN
    \/ Len(d) < Len(U256MaxDec)
    \/ Len(d) = Len(U256MaxDec) /\ DecLeq(d, U256MaxDec)

\* the 20 bytes denoted by the last 40 characters of s
DenotedBytes(s) ==
    LET h == SubSeq(s, Len(s) - 39, Len(s)) IN
    [i \in 1..20 |-> 16 * HexVal(h[2 * i - 1]) + HexVal(h[2 * i])]

(***************************************************************************)
(* Claims about the classifier and the encoder (SpecParam)                 *)
(***************************************************************************)

\* C1: every string that is not an address, not "0x" followed by hex digits
\* and not a decimal integer (whole-string patterns) is classified as Text
\* and prepare_params passes it through unchanged as a string token.
C1_TextFallback ==
    (pres # NoResult /\ ~IsAddressText(p) /\ ~IsHexText(p) /\ ~IsDecimalText(p))
        => /\ ptype = "String"
           /\ pres.kind = "Ok"
           /\ Len(pres.val) = 1
           /\ pres.val[1].type = "String"
           /\ pres.val[1].val = p

\* C2 (as stated): every string matching ^-?[1-9][0-9]*$ is classified
\* DU256, and "0" is classified as Text.
C2_DecimalAlwaysDU256 ==
    ptype # "none"
        => /\ IsDecimalText(p) => ptype = "DU256"
           /\ p = <<"0">> => ptype = "String"

\* C2 (amended): every string matching ^-?[1-9][0-9]*$ that does not also
\* match the address pattern is classified DU256, and "0" is classified as
\* Text.
C2_DecimalUnlessAddress ==
    ptype # "none"
        => /\ (IsDecimalText(p) /\ ~IsAddressText(p)) => ptype = "DU256"
           /\ p = <<"0">> => ptype = "String"

C2_Witness ==
    /\ ptype = "DU256"
    /\ IsDecimalText(p)
    /\ Len(p) > 40

\* C3: every string matching ^(0x)?[0-9a-f]{40}$ case-insensitively is
\* classified Address, never hexadecimal integer, decimal integer or Text.
C3_AddressFirst ==
    (ptype # "none" /\ IsAddressText(p)) => ptype = "Address"

C3_Witness ==
    /\ ptype = "Address"
    /\ IsHexText(p)
    /\ \E i \in 1..Len(p) : p[i] = "F"

\* C9 (as stated): every string classified DU256 is encoded successfully and
\* the decimal text of the encoded U256 is the value the string denotes.
C9_DecimalRoundTrip ==
    (pres # NoResult /\ ptype = "DU256")
        => /\ pres.kind = "Ok"
           /\ pres.val[1].type = "Uint"
           /\ U256_to_string(pres.val[1].val) = StripLeadingZeros(p)

\* C9 (amended): a string classified DU256 that consists of decimal digits
\* only and denotes a value of at most 2^256 - 1 is encoded successfully and
\* the decimal text of the encoded U256 is that value; every other string
\* classified DU256 makes prepare_params return an error.
C9_DecimalRoundTripOrError ==
    (pres # NoResult /\ ptype = "DU256")
        => IF AllDigits(p) /\ FitsU256(p)
           THEN /\ pres.kind = "Ok"
                /\ pres.val[1].type = "Uint"
                /\ U256_to_string(pres.val[1].val) = StripLeadingZeros(p)
           ELSE pres.kind = "Err"

C9_Witness ==
    /\ ptype = "DU256"
    /\ pres.kind = "Ok"
    /\ Len(StripLeadingZeros(p)) = Len(U256MaxDec)

\* C10: for every string classified Address, with or without "0x",
\* get_address_from_str yields the 20 bytes its 40 hex characters denote, and
\* a failure is an error value, never a crash.
C10_AddressBytes ==
    /\ ares.kind # "Panic"
    /\ (ares # NoResult /\ ptype = "Address")
        => /\ ares.kind = "Ok"
           /\ ares.val = DenotedBytes(p)

\* "0x" followed by one or more hex digits, the prefix as written
IsHexForm(s) ==
    /\ Len(s) >= 3
    /\ s[1] = "0" /\ s[2] = "x"
    /\ \A i \in 3..Len(s) : s[i] \in Hex09afAF

\* the value u written in base 16, lower case, without leading zeros: four
\* digits for each limb, the most significant limb first
HexText(u) ==
    StripLeadingZeros(
        [k \in 1..(4 * NumLimbs) |->
            LET limb == u[NumLimbs - ((k - 1) \div 4)]
                pos == (k - 1) % 4
                digit == IF pos = 0 THEN limb \div 4096
                         ELSE IF pos = 1 THEN (limb \div 256) % 16
                         ELSE IF pos = 2 THEN (limb \div 16) % 16
                         ELSE limb % 16
            IN HexChars[digit + 1]])

\* C11: every string "0x" + one or more hex digits that is not an address is
\* classified HU256; it is encoded to the unsigned integer its digits denote
\* in base 16 when that value is at most 2^256 - 1 (at most 64 significant
\* digits), and prepare_params returns an error when it exceeds 256 bits.
C11_HexEncoded ==
    (pres # NoResult /\ IsHexForm(p) /\ ~IsAddressText(p))
        => LET digits == StripLeadingZeros(SliceFrom(p, 2)) IN
           /\ ptype = "HU256"
           /\ IF Len(digits) <= 64
              THEN /\ pres.kind = "Ok"
                   /\ Len(pres.val) = 1
                   /\ pres.val[1].type = "Uint"
                   /\ HexText(pres.val[1].val) = to_lowercase(digits)
              ELSE pres.kind = "Err"

(***************************************************************************)
(* One invocation of main                                                  *)
(***************************************************************************)
ExitFailure == 1
ExitUsage == 2
ExitPanic == 101

BSC_RPC_ENDPOINT == "https://bsc-dataseed.binance.org/"
ETHEREUM_RPC_ENDPOINT == "https://rpc.ankr.com/eth"
POLYGON_RPC_ENDPOINT == "https://polygon-rpc.com/"

Str_bsc == <<"b","s","c">>
Str_ethereum == <<"e","t","h","e","r","e","u","m">>
Str_ehtereum == <<"e","h","t","e","r","e","u","m">>
Str_polygon == <<"p","o","l","y","g","o","n">>

\* ---- command lines ----
MaxParams == 2

ChainArgs == {Str_bsc, Str_ethereum, Str_polygon, <<"B","S","C">>,
              <<"t","r","o","n">>}
AddrPrefixed == <<"0","x">> \o Rep("a", 40)
AddrUnprefixed == Rep("b", 40)
AddrMalformed == <<"0","x","a","b">>
AddressArgs == {AddrPrefixed, AddrUnprefixed, AddrMalformed}
FnNames == {"balance", "approve"}
RetTypes == {"none", "String", "U256"}
FromAddrArgs == {<<>>} \cup {<<a>> : a \in {AddrPrefixed, AddrUnprefixed}}
ParamPool == {AddrPrefixed, AddrUnprefixed, <<"5">>, <<"-","5">>}
ParamLists == StringsUpTo(ParamPool, MaxParams)

\* CommandlineArgs as typed; an Option<String> is a sequence of length 0 or
\* 1, fn_ret_type "none" is an absent --fn-ret-type.  --abi-filepath is
\* always supplied and --block-confirmations keeps its default.
\* --estimate-gas-from-addr, read on the dry-run path only, is supplied only
\* together with --dry-run-estimate-gas.
CmdLines ==
    {a \in [chain : ChainArgs, contract_address : AddressArgs,
            fn_name : FnNames, rpc_eth : BOOLEAN, fn_ret_type : RetTypes,
            ensure_setter : BOOLEAN, params : ParamLists,
            dry_run_estimate_gas : BOOLEAN,
            estimate_gas_from_addr : FromAddrArgs] :
        ~a.dry_run_estimate_gas => a.estimate_gas_from_addr = <<>>}

\* ---- clap: the constraints declared on CommandlineArgs ----
\* possible_values with ignore_case on --chain, conflicts_with_all on
\* --rpc-eth, required_unless_present_any and possible_values on
\* --fn-ret-type
ClapRejects(a) ==
    \/ to_lowercase(a.chain) \notin {Str_bsc, Str_ethereum, Str_polygon}
    \/ a.rpc_eth /\ (a.ensure_setter \/ a.dry_run_estimate_gas)
    \/ a.fn_ret_type = "none" /\ ~a.ensure_setter /\ ~a.dry_run_estimate_gas
    \/ a.fn_ret_type \notin {"none", "String", "U256"}

\* required_if_eq("dry-run-estimate-gas", "true") on
\* --estimate-gas-from-addr: whether a flag without a value compares equal
\* to "true" depends on the clap release, so both outcomes are possible
ClapMayReject(a) ==
    a.dry_run_estimate_gas /\ a.estimate_gas_from_addr = <<>>

Exit(code) ==
    /\ pc' = "done"
    /\ exit_code' = code

\* eprintln!(msg) followed by std::process::exit(1)
ErrorExit(msg) ==
    /\ stderr' = Append(stderr, msg)
    /\ Exit(ExitFailure)

\* a panic: the panic message on standard error, exit status 101
PanicExit ==
    /\ stderr' = Append(stderr, "thread 'main' panicked")
    /\ Exit(ExitPanic)

Init ==
    /\ p = <<>>
    /\ ptype = "none"
    /\ pres = NoResult
    /\ ares = NoResult
    /\ pc = "parse"
    /\ argv \in CmdLines
    /\ env_key = "unread"
    /\ chain = "None"
    /\ endpoint = "none"
    /\ is_eoa_res = NoResult
    /\ mode = "none"
    /\ requests = <<>>
    /\ stdout = <<>>
    /\ stderr = <<>>
    /\ key_read = FALSE
    /\ exit_code = Running

\* CommandlineArgs::parse() prints the usage error and exits
ClapReject ==
    /\ pc = "parse"
    /\ ClapRejects(argv) \/ ClapMayReject(argv)
    /\ stderr' = Append(stderr, "clap: usage error")
    /\ Exit(ExitUsage)
    /\ UNCHANGED <<pvars, argv, env_key, chain, endpoint, is_eoa_res, mode,
                   requests, stdout, key_read>>

\* CommandlineArgs::parse() returns the arguments as typed
ClapAccept ==
    /\ pc = "parse"
    /\ ~ClapRejects(argv)
    /\ pc' = "chain"
    /\ UNCHANGED <<pvars, argv, env_key, chain, endpoint, is_eoa_res, mode,
                   requests, stdout, stderr, key_read, exit_code>>

\* the if/else chain over chain_value
chain_of(chain_value) ==
    IF chain_value = Str_bsc THEN "BSC"
    ELSE IF chain_value = Str_ehtereum THEN "Ethereum"
    ELSE IF chain_value = Str_polygon THEN "Polygon"
    ELSE "None"

\* main, chain selection and chain.unwrap()
SelectChain ==
    /\ pc = "chain"
    /\ chain' = chain_of(argv.chain)
    /\ IF chain' = "None"
       THEN PanicExit
       ELSE pc' = "create_web3" /\ UNCHANGED <<stderr, exit_code>>
    /\ UNCHANGED <<pvars, argv, env_key, endpoint, is_eoa_res, mode,
                   requests, stdout, key_read>>

rpc_endpoint(c) ==
    IF c = "BSC" THEN BSC_RPC_ENDPOINT
    ELSE IF c = "Ethereum" THEN ETHEREUM_RPC_ENDPOINT
    ELSE POLYGON_RPC_ENDPOINT

create_web3 ==
    /\ pc = "create_web3"
    /\ endpoint' = rpc_endpoint(chain)
    /\ pc' = "check_eoa"
    /\ UNCHANGED <<pvars, argv, env_key, chain, is_eoa_res, mode, requests,
                   stdout, stderr, key_read, exit_code>>

Request(op, arg, resp) == [op |-> op, arg |-> arg, resp |-> resp]

\* perform_check_is_eoa: format check, hex decoding of address[2..],
\* Address::from_slice, then the eth_getCode request
perform_check_is_eoa ==
    /\ pc = "check_eoa"
    /\ LET address == argv.contract_address
           decoded == hex_decode(SliceFrom(address, 2))
           addr == Address_from_slice(decoded.val)
       IN
       IF ~validate_address_format(address)
       THEN /\ is_eoa_res' = Err("Error address is not in the correct format")
            /\ pc' = "eoa_checked"
            /\ UNCHANGED <<requests, stderr, exit_code>>
       ELSE IF decoded.kind # "Ok"
       THEN /\ is_eoa_res' = Err("Error hex decoding of address")
            /\ pc' = "eoa_checked"
            /\ UNCHANGED <<requests, stderr, exit_code>>
       ELSE IF addr.kind = "Panic"
       THEN /\ PanicExit
            /\ UNCHANGED <<requests, is_eoa_res>>
       ELSE \E resp \in {"Err", "empty", "code"} :
            /\ requests' = Append(requests, Request("code", addr.val, resp))
            /\ is_eoa_res' =
                   IF resp = "Err"
                   THEN Err("Error awaiting result for code from address")
                   ELSE Ok(resp = "empty")
            /\ pc' = "eoa_checked"
            /\ UNCHANGED <<stderr, exit_code>>
    /\ UNCHANGED <<pvars, argv, env_key, chain, endpoint, mode, stdout,
                   key_read>>

\* HandleIsEoa without the exit in the EOA arm
HandleIsEoa_noexit ==
    /\ pc = "eoa_checked"
    /\ IF is_eoa_res.kind = "Err"
       THEN ErrorExit("Error validating input contract address")
       ELSE IF is_eoa_res.val
       THEN /\ stderr' = Append(stderr, "Error, input contract address is EOA")
            /\ pc' = "create_contract"
            /\ UNCHANGED exit_code
       ELSE /\ pc' = "create_contract"
            /\ UNCHANGED <<stderr, exit_code>>
    /\ UNCHANGED <<pvars, argv, env_key, chain, endpoint, is_eoa_res, mode,
                   requests, stdout, key_read>>

\* main, the match on is_eoa_res
HandleIsEoa ==
    /\ pc = "eoa_checked"
    /\ IF is_eoa_res.kind = "Err"
       THEN ErrorExit("Error validating input contract address")
       ELSE IF is_eoa_res.val
       THEN ErrorExit("Error, input contract address is EOA")
       ELSE /\ pc' = "create_contract"
            /\ UNCHANGED <<stderr, exit_code>>
    /\ UNCHANGED <<pvars, argv, env_key, chain, endpoint, is_eoa_res, mode,
                   requests, stdout, key_read>>

\* create_contract on the built-in ABI_STR, which always parses
create_contract_res(contract_address_str) ==
    IF ~validate_address_format(contract_address_str)
    THEN Err("Error address is in wrong format")
    ELSE LET decoded == hex_decode(SliceFrom(contract_address_str, 2)) IN
         IF decoded.kind # "Ok"
         THEN Err("Error converting from literal string of contract address")
         ELSE Address_from_slice(decoded.val)

create_contract ==
    /\ pc = "create_contract"
    /\ LET res == create_contract_res(argv.contract_address) IN
       IF res.kind = "Ok"
       THEN /\ pc' = "dispatch"
            /\ UNCHANGED <<stderr, exit_code>>
       ELSE IF res.kind = "Err"
       THEN ErrorExit("Error creating a contract instance")
       ELSE PanicExit
    /\ UNCHANGED <<pvars, argv, env_key, chain, endpoint, is_eoa_res, mode,
                   requests, stdout, key_read>>

\* select_mode with the --ensure-setter branches ahead of the dry-run branch
select_mode_setterfirst(a) ==
    IF a.ensure_setter /\ a.rpc_eth THEN "NotSupported"
    ELSE IF a.ensure_setter THEN "WriteTransaction"
    ELSE IF a.dry_run_estimate_gas THEN
        IF ~a.ensure_setter THEN "ConfigError"
        ELSE IF a.estimate_gas_from_addr = <<>> THEN "ConfigError"
        ELSE "GasEstimate"
    ELSE IF a.rpc_eth THEN "RawBalanceQuery"
    ELSE IF a.fn_ret_type = "none" THEN "ConfigError"
    ELSE "ReadQuery"

\* main's if/else chain over the flags: the outcome it selects
select_mode(a) ==
    IF a.dry_run_estimate_gas THEN
        IF ~a.ensure_setter THEN "ConfigError"
        ELSE IF a.estimate_gas_from_addr = <<>> THEN "ConfigError"
        ELSE "GasEstimate"
    ELSE IF a.ensure_setter /\ a.rpc_eth THEN "NotSupported"
    ELSE IF a.ensure_setter THEN "WriteTransaction"
    ELSE IF a.rpc_eth THEN "RawBalanceQuery"
    ELSE IF a.fn_ret_type = "none" THEN "ConfigError"
    ELSE "ReadQuery"

\* println!(line) and the return from main
PrintAndReturn(line) ==
    /\ stdout' = Append(stdout, line)
    /\ Exit(0)

\* main from the first `if` to the call of the selected path
Dispatch ==
    /\ pc = "dispatch"
    /\ mode' = select_mode(argv)
    /\ IF mode' = "ConfigError" THEN
            /\ ErrorExit(IF ~argv.dry_run_estimate_gas
                         THEN "Error, require --fn-ret-type"
                         ELSE IF ~argv.ensure_setter
                         THEN "Error, --dry-run-estimate-gas requires --ensure-setter flag"
                         ELSE "Error, requires --estimate-gas-from-addr to be set")
            /\ UNCHANGED stdout
       ELSE IF mode' = "NotSupported" THEN
            /\ PrintAndReturn("Not support right now")
            /\ UNCHANGED stderr
       ELSE IF mode' = "GasEstimate" THEN
            /\ pc' = "estimate_gas"
            /\ UNCHANGED <<stdout, stderr, exit_code>>
       ELSE IF mode' = "WriteTransaction" THEN
            /\ pc' = "query_set"
            /\ UNCHANGED <<stdout, stderr, exit_code>>
       ELSE IF mode' = "RawBalanceQuery" THEN
            IF argv.fn_name = "balance"
            THEN /\ pc' = "balance"
                 /\ UNCHANGED <<stdout, stderr, exit_code>>
            ELSE /\ Exit(0)
                 /\ UNCHANGED <<stdout, stderr>>
       ELSE IF argv.fn_ret_type \in {"String", "U256"}
            THEN /\ pc' = "query_get"
                 /\ UNCHANGED <<stdout, stderr, exit_code>>
            ELSE /\ Exit(0)
                 /\ UNCHANGED <<stdout, stderr>>
    /\ UNCHANGED <<pvars, argv, env_key, chain, endpoint, is_eoa_res,
                   requests, key_read>>

\* web3_query_estimate_gas with main going on to the gas price after a failed
\* estimate
web3_query_estimate_gas_nomatch ==
    /\ pc = "estimate_gas"
    /\ LET parsed_params == prepare_params(argv.params)
           from_addr == get_address_from_str(argv.estimate_gas_from_addr[1])
       IN
       IF parsed_params.kind = "Panic" THEN
            /\ PanicExit
            /\ UNCHANGED requests
       ELSE IF parsed_params.kind = "Err" THEN
            /\ ErrorExit("Error estimating gas by calling a setter method")
            /\ UNCHANGED requests
       ELSE IF from_addr.kind = "Panic" THEN
            /\ PanicExit
            /\ UNCHANGED requests
       ELSE IF from_addr.kind = "Err" THEN
            /\ ErrorExit("Error estimating gas by calling a setter method")
            /\ UNCHANGED requests
       ELSE \E resp \in {"Ok", "Err"} :
            /\ requests' = Append(requests,
                   Request("estimate_gas",
                           [fn_name |-> argv.fn_name,
                            params |-> parsed_params.val,
                            from |-> from_addr.val], resp))
            /\ IF resp = "Ok"
               THEN /\ pc' = "gas_price"
                    /\ UNCHANGED <<stderr, exit_code>>
               ELSE /\ pc' = "gas_price"
                    /\ UNCHANGED <<stderr, exit_code>>
    /\ UNCHANGED <<pvars, argv, env_key, chain, endpoint, is_eoa_res, mode,
                   stdout, key_read>>

\* web3_query_estimate_gas and main's match on its result
web3_query_estimate_gas ==
    /\ pc = "estimate_gas"
    /\ LET parsed_params == prepare_params(argv.params)
           from_addr == get_address_from_str(argv.estimate_gas_from_addr[1])
       IN
       IF parsed_params.kind = "Panic" THEN
            /\ PanicExit
            /\ UNCHANGED requests
       ELSE IF parsed_params.kind = "Err" THEN
            /\ ErrorExit("Error estimating gas by calling a setter method")
            /\ UNCHANGED requests
       ELSE IF from_addr.kind = "Panic" THEN
            /\ PanicExit
            /\ UNCHANGED requests
       ELSE IF from_addr.kind = "Err" THEN
            /\ ErrorExit("Error estimating gas by calling a setter method")
            /\ UNCHANGED requests
       ELSE \E resp \in {"Ok", "Err"} :
            /\ requests' = Append(requests,
                   Request("estimate_gas",
                           [fn_name |-> argv.fn_name,
                            params |-> parsed_params.val,
                            from |-> from_addr.val], resp))
            /\ IF resp = "Ok"
               THEN /\ pc' = "gas_price"
                    /\ UNCHANGED <<stderr, exit_code>>
               ELSE ErrorExit("Error estimating gas by calling a setter method")
    /\ UNCHANGED <<pvars, argv, env_key, chain, endpoint, is_eoa_res, mode,
                   stdout, key_read>>

\* web3.eth().gas_price() and the result line
gas_price ==
    /\ pc = "gas_price"
    /\ \E resp \in {"Ok", "Err"} :
        /\ requests' = Append(requests, Request("gas_price", <<>>, resp))
        /\ IF resp = "Ok"
           THEN /\ PrintAndReturn("gas used, gas price, cost")
                /\ UNCHANGED stderr
           ELSE /\ ErrorExit("Error in querying gas price")
                /\ UNCHANGED stdout
    /\ UNCHANGED <<pvars, argv, env_key, chain, endpoint, is_eoa_res, mode,
                   key_read>>

\* web3_query_set and main's match on its result; the environment variable
\* CRUNNER_SETTER_SECRETKEY is found absent or holding a valid key when read
web3_query_set ==
    /\ pc = "query_set"
    /\ LET parsed_params == prepare_params(argv.params) IN
       IF parsed_params.kind = "Panic" THEN
            /\ PanicExit
            /\ UNCHANGED <<requests, stdout, key_read, env_key>>
       ELSE IF parsed_params.kind = "Err" THEN
            /\ ErrorExit("Error calling setter method")
            /\ UNCHANGED <<requests, stdout, key_read, env_key>>
       ELSE \E key \in {"absent", "valid"} :
            /\ env_key' = key
            /\ key_read' = TRUE
            /\ IF key # "valid" THEN
                    \* std::env::var(..).expect(..)
                    /\ PanicExit
                    /\ UNCHANGED <<requests, stdout>>
               ELSE \E resp \in {"Ok", "Err"} :
                    /\ requests' = Append(requests,
                           Request("signed_call",
                                   [fn_name |-> argv.fn_name,
                                    params |-> parsed_params.val], resp))
                    /\ IF resp = "Ok"
                       THEN /\ PrintAndReturn("transaction hash")
                            /\ UNCHANGED stderr
                       ELSE /\ ErrorExit("Error calling setter method")
                            /\ UNCHANGED stdout
    /\ UNCHANGED <<pvars, argv, chain, endpoint, is_eoa_res, mode>>

\* the raw RPC branch for fn_name "balance"
balance ==
    /\ pc = "balance"
    /\ LET contract_addr == get_address_from_str(argv.contract_address) IN
       IF contract_addr.kind = "Panic" THEN
            /\ PanicExit
            /\ UNCHANGED <<requests, stdout>>
       ELSE IF contract_addr.kind = "Err" THEN
            /\ ErrorExit(contract_addr.val)
            /\ UNCHANGED <<requests, stdout>>
       ELSE \E resp \in {"Ok", "Err"} :
            /\ requests' = Append(requests,
                   Request("balance", contract_addr.val, resp))
            /\ IF resp = "Ok"
               THEN /\ PrintAndReturn("balance, scaled balance")
                    /\ UNCHANGED stderr
               ELSE /\ ErrorExit("Error querying balance")
                    /\ UNCHANGED stdout
    /\ UNCHANGED <<pvars, argv, env_key, chain, endpoint, is_eoa_res, mode,
                   key_read>>

\* web3_query_get::<String> or ::<U256> and main's match on its result
web3_query_get ==
    /\ pc = "query_get"
    /\ LET parsed_params == prepare_params(argv.params) IN
       IF parsed_params.kind = "Panic" THEN
            /\ PanicExit
            /\ UNCHANGED <<requests, stdout>>
       ELSE IF parsed_params.kind = "Err" THEN
            /\ ErrorExit("Error querying of method")
            /\ UNCHANGED <<requests, stdout>>
       ELSE \E resp \in {"Ok", "Err"} :
            /\ requests' = Append(requests,
                   Request("query",
                           [fn_name |-> argv.fn_name,
                            params |-> parsed_params.val], resp))
            /\ IF resp = "Ok"
               THEN /\ PrintAndReturn("decoded result")
                    /\ UNCHANGED stderr
               ELSE /\ ErrorExit("Error querying of method")
                    /\ UNCHANGED stdout
    /\ UNCHANGED <<pvars, argv, env_key, chain, endpoint, is_eoa_res, mode,
                   key_read>>

Next ==
    \/ ClapReject
    \/ ClapAccept
    \/ SelectChain
    \/ create_web3
    \/ perform_check_is_eoa
    \/ HandleIsEoa
    \/ create_contract
    \/ Dispatch
    \/ web3_query_estimate_gas
    \/ gas_price
    \/ web3_query_set
    \/ balance
    \/ web3_query_get

Spec == Init /\ [][Next]_vars

(***************************************************************************)
(* Claims about one invocation of main (Spec)                              *)
(***************************************************************************)
\* the transition table of the execution mode selector, first match wins
TableOutcome(a) ==
    LET isDryRun == a.dry_run_estimate_gas
        isSetter == a.ensure_setter
        isRawRpc == a.rpc_eth
        hasReturnType == a.fn_ret_type # "none"
        hasFromAddr == a.estimate_gas_from_addr # <<>>
    IN CASE isDryRun /\ isSetter /\ hasFromAddr -> "GasEstimate"
         [] isDryRun /\ ~(isSetter /\ hasFromAddr) -> "ConfigError"
         [] ~isDryRun /\ isSetter /\ isRawRpc -> "NotSupported"
         [] ~isDryRun /\ isSetter /\ ~isRawRpc -> "WriteTransaction"
         [] ~isDryRun /\ ~isSetter /\ isRawRpc -> "RawBalanceQuery"
         [] ~isDryRun /\ ~isSetter /\ ~isRawRpc /\ hasReturnType -> "ReadQuery"
         [] ~isDryRun /\ ~isSetter /\ ~isRawRpc /\ ~hasReturnType -> "ConfigError"

\* the chain requests of each execution path
PathOps(m) ==
    CASE m = "GasEstimate" -> {"estimate_gas", "gas_price"}
      [] m = "WriteTransaction" -> {"signed_call"}
      [] m = "RawBalanceQuery" -> {"balance"}
      [] m = "ReadQuery" -> {"query"}
      [] OTHER -> {}

\* the request that completes each execution path
FinalOp(m) ==
    CASE m = "GasEstimate" -> "gas_price"
      [] m = "WriteTransaction" -> "signed_call"
      [] m = "RawBalanceQuery" -> "balance"
      [] m = "ReadQuery" -> "query"
      [] OTHER -> "none"

C5_ConfigErrorBeforeNetwork ==
    (mode = "ConfigError" \/ exit_code = ExitUsage) => requests = <<>>

\* C6: the contract-code check on the target address is the first chain
\* request; when it reports an externally-owned account or fails, the
\* process exits non-zero and no further chain request is made.
C6_CodeCheckFirst ==
    /\ requests # <<>> =>
        /\ requests[1].op = "code"
        /\ requests[1].arg = DenotedBytes(argv.contract_address)
    /\ (is_eoa_res.kind = "Err" \/ (is_eoa_res.kind = "Ok" /\ is_eoa_res.val)) =>
        /\ Len(requests) <= 1
        /\ stdout = <<>>
        /\ pc \in {"eoa_checked", "done"}
        /\ pc = "done" => exit_code # 0

C6_Witness ==
    /\ pc = "done"
    /\ is_eoa_res.kind = "Ok"
    /\ is_eoa_res.val
    /\ Len(requests) = 1
    /\ exit_code = ExitFailure

ExpectedChain(chain_value) ==
    LET l == to_lowercase(chain_value) IN
    CASE l = Str_bsc -> "BSC"
      [] l = Str_ethereum -> "Ethereum"
      [] l = Str_polygon -> "Polygon"
      [] OTHER -> "None"

\* C7: every accepted value of --chain (bsc, ethereum, polygon in any letter
\* case) selects its ChainTarget and RPC endpoint; startup reaches
\* create_web3 and never aborts on chain selection.
C7_ChainSelected ==
    (pc \notin {"parse", "chain"} /\ exit_code # ExitUsage) =>
        /\ chain # "None"
        /\ chain = ExpectedChain(argv.chain)
        /\ ~(pc = "done" /\ exit_code = ExitPanic /\ endpoint = "none")

\* a run that failed: a failed or EOA-reporting chain request, a malformed
\* address, a parameter that does not encode, a missing signing key, or the
\* unsupported combination of setter and raw RPC
Failed ==
    \/ \E i \in 1..Len(requests) : requests[i].resp \in {"Err", "empty"}
    \/ ~IsAddressText(argv.contract_address)
    \/ /\ mode \in {"GasEstimate", "WriteTransaction", "ReadQuery"}
       /\ prepare_params(argv.params).kind # "Ok"
    \/ mode = "WriteTransaction" /\ env_key = "absent"
    \/ argv.ensure_setter /\ argv.rpc_eth

\* a run that succeeded: the selected path sent its last request, every
\* request was answered, and the result line was printed
Succeeded ==
    /\ mode \in {"GasEstimate", "WriteTransaction", "RawBalanceQuery", "ReadQuery"}
    /\ requests # <<>>
    /\ requests[Len(requests)].op = FinalOp(mode)
    /\ \A i \in 1..Len(requests) : requests[i].resp \in {"Ok", "code"}
    /\ Len(stdout) = 1

\* C8: the process exits with status 0 only on success, and with a non-zero
\* status on every validation, network or encoding failure, missing signing
\* key and unsupported mode.
C8_ZeroOnlyOnSuccess ==
    pc = "done" =>
        /\ exit_code = 0 => Succeeded
        /\ Failed => exit_code # 0

\* C12: every finished run either completed exactly one execution path and
\* printed exactly one result line on standard output (exit status 0), or
\* printed an error and exited non-zero; no run ends with exit status 0
\* having printed no result.
C12_ResultOrError ==
    pc = "done" =>
        \/ /\ exit_code = 0
           /\ Len(stdout) = 1
           /\ Len(requests) >= 2
           /\ \A i \in 2..Len(requests) : requests[i].op \in PathOps(mode)
           /\ requests[Len(requests)].op = FinalOp(mode)
        \/ /\ exit_code # 0
           /\ stderr # <<>>
           /\ stdout = <<>>

\* C13: in GasEstimate mode the chain requests are, in this order, the
\* contract-code check, the gas estimate with the supplied sender address and
\* the gas-price fetch; the gas price is fetched only after the estimate
\* succeeded, the result line is printed only after both succeeded, and no
\* signed transaction is submitted nor the signing key read.
C13_GasEstimateOrder ==
    mode = "GasEstimate" =>
        LET n == Len(requests)
            order == <<"code", "estimate_gas", "gas_price">>
        IN
        /\ n <= 3
        /\ \A i \in 1..n : requests[i].op = order[i]
        /\ n >= 2 =>
            /\ requests[1].resp = "code"
            /\ requests[2].arg.fn_name = argv.fn_name
            /\ requests[2].arg.from = DenotedBytes(argv.estimate_gas_from_addr[1])
        /\ n = 3 => requests[2].resp = "Ok"
        /\ stdout # <<>> =>
            /\ n = 3
            /\ requests[2].resp = "Ok"
            /\ requests[3].resp = "Ok"
            /\ Len(stdout) = 1
        /\ ~key_read

C13_Witness ==
    /\ mode = "GasEstimate"
    /\ pc = "done"
    /\ Len(requests) = 3
    /\ requests[3].resp = "Ok"
    /\ stdout # <<>>

\* the outcome of encoding each parameter on its own
EachEncoded(params) == [i \in 1..Len(params) |-> prepare_param(params[i])]

\* the chain request of an execution path that carries parameters
ParamOps == {"query", "estimate_gas", "signed_call"}

\* C14: in ReadQuery, WriteTransaction and GasEstimate modes the whole
\* parameter list is encoded, in input order, before the chain request of the
\* path: when a parameter fails to encode, prepare_params returns the error
\* of the first failing parameter, the run ends with an error exit, no query,
\* gas estimate or signed transaction is sent and the signing key is not
\* read; when all succeed the token list sent has the length and the order
\* of the input parameters.
C14_EncodeBeforeRequest ==
    (mode \in {"ReadQuery", "WriteTransaction", "GasEstimate"}
        /\ pc \in {"gas_price", "done"}) =>
        LET enc == EachEncoded(argv.params)
            bad == {i \in 1..Len(enc) : enc[i].kind # "Ok"}
        IN
        IF bad # {}
        THEN LET first == CHOOSE i \in bad : \A j \in bad : i <= j IN
             /\ enc[first].kind = "Err"
             /\ prepare_params(argv.params) = enc[first]
             /\ exit_code = ExitFailure
             /\ stderr # <<>>
             /\ stdout = <<>>
             /\ \A i \in 1..Len(requests) : requests[i].op \notin ParamOps
             /\ ~key_read
        ELSE \A i \in 1..Len(requests) :
                requests[i].op \in ParamOps =>
                    /\ Len(requests[i].arg.params) = Len(argv.params)
                    /\ \A k \in 1..Len(argv.params) :
                           requests[i].arg.params[k] = enc[k].val
====
